---- MODULE Spec2Model ----
(***************************************************************************)
(* Model of the two Streamlit scripts of the repository:                   *)
(*   dashboard.py              the time-series generator and renderer      *)
(*   weather_map_dashboard.py  the map renderer, which imports dashboard   *)
(* One server process hosts one of the two scripts and re-executes it top  *)
(* to bottom on every user interaction.  State that outlives a rerun: the  *)
(* session state, the module cache (sys.modules), the global random        *)
(* generator and the wall clock.                                           *)
(*                                                                         *)
(* Numeric values are integers in tenths of the source's unit (20.0 degC   *)
(* is 200); time is in clock ticks, TicksPerMinute ticks to a minute.      *)
(***************************************************************************)
EXTENDS Integers, Sequences, FiniteSets

\* ------------------------------------------------------------- bounds
\* Samples per series.  The source configures 100 (dashboard.py:31); the
\* model generates a shorter series of the same shape.
num_points == 4
\* Clock resolution: ticks in one minute.
TicksPerMinute == 2
\* The clock stops advancing at this tick.
MaxClock == 1
\* Reruns of the script the model follows in one process.
MaxRuns == 2
\* Library calls that raise in one run, besides what the inputs make fail.
MaxFaults == 1
\* Most regions a geometry file holds.
MaxRegions == 2
\* Size of the random generator's state space.
Modulus == 16

\* ------------------------------------------------- program constants
seed == 42
TempMin == -500
TempMax == 600
HumidityMin == 0
HumidityMax == 1000
WindMin == 0

\* Python's None.
None == [type |-> "NoneType"]
\* No exception was raised.
NoError == ""

VARIABLES
  script,        \* which script the server runs: "dashboard" or "map"
  sampler,       \* how far the normal sampler's draws reach (fixed per process)
  pc,            \* the section the current run is about to execute; "idle" between runs
  halted,        \* st.stop() ended the current run
  runs,          \* runs started so far
  now,           \* the wall clock
  run_start,     \* the clock when the current run started
  rng,           \* state of numpy's global generator
  checkbox,      \* value of the sidebar checkbox in the browser for this render
  session_state, \* st.session_state: a function from keys to values
  debug_mode,    \* weather_map_dashboard.debug_mode (module global of the run)
  imported,      \* "dashboard" is in sys.modules
  df,            \* dashboard.df: None or the generated DataFrame
  call_time,     \* the clock when generate_weather_data was last entered
  raw,           \* the arrays the last generate_weather_data call drew, or None
  valid,         \* the last return value of validate_dataframe
  regions_gdf,   \* None or the loaded GeoDataFrame
  load_result,   \* how the GeoJSON load of this run ended
  m,             \* None or the folium map: the sequence of its layers
  tooltip_count, \* the tooltip loop's counter
  idx,           \* rows the tooltip loop has visited
  attempts,      \* the rows for which a tooltip addition was attempted, in order
  skipped,       \* the rows whose tooltip failed
  ui,            \* the elements emitted to the page by the current run, in order
  failed,        \* sections of the current run in which a failure was caught
  rendered,      \* sections of the current run that ran to their end
  faults,        \* library calls that raised in the current run
  gen_in_run,    \* generate_weather_data ran in the current run
  hist_series,   \* every data-array triple a call of generate_weather_data drew
  hist_regions,  \* every per-region temperature column a run assigned
  gen_calls,     \* calls of generate_weather_data so far
  assign_calls   \* runs of the region temperature assignment so far

vars == << script, sampler, pc, halted, runs, now, run_start, rng, checkbox,
           session_state, debug_mode, imported, df, call_time, raw, valid,
           regions_gdf, load_result, m, tooltip_count, idx, attempts, skipped,
           ui, failed, rendered, faults, gen_in_run, hist_series,
           hist_regions, gen_calls, assign_calls >>

\* ------------------------------------------------------------ helpers
Last(s) == s[Len(s)]

RECURSIVE Sum(_)
Sum(s) == IF s = << >> THEN 0 ELSE s[1] + Sum(Tail(s))

\* One element on the page: the Streamlit call, the section and the text.
Emit(kind, sec, msg) == [kind |-> kind, sec |-> sec, msg |-> msg]

\* ------------------------------------------------- numpy.random (global)
\* np.random.seed(x): the generator state is a function of the seed alone.
np_random_seed(x) == x % Modulus

\* One step of the generator.
np_random_step(s) == (s * 5 + 3) % Modulus

\* The generator state after k draws.
RECURSIVE np_random_after(_, _)
np_random_after(s, k) == IF k = 0 THEN s ELSE np_random_after(np_random_step(s), k - 1)

\* np.random.normal(0, scale, size): size successive draws, each a multiple
\* of the scale (in tenths); the sampler decides how far the tails reach.
np_random_normal(s, scale, size) ==
  [i \in 1..size |-> scale * sampler * (np_random_after(s, i) - (Modulus \div 2))]

\* np.random.uniform(26, 34, size), in tenths.
np_random_uniform(s, size) ==
  [i \in 1..size |-> 260 + (np_random_after(s, i) * 80) \div Modulus]

\* np.sin / np.cos over np.linspace(0, halfPeriods * pi, num_points), sampled
\* at the quarter period at or below each point: 0, 1, 0, -1 and 1, 0, -1, 0.
Quarter(i, halfPeriods) == ((2 * halfPeriods * (i - 1)) \div (num_points - 1)) % 4
np_sin(i, halfPeriods) == CASE Quarter(i, halfPeriods) = 0 -> 0
                            [] Quarter(i, halfPeriods) = 1 -> 1
                            [] Quarter(i, halfPeriods) = 2 -> 0
                            [] OTHER -> -1
np_cos(i, halfPeriods) == CASE Quarter(i, halfPeriods) = 0 -> 1
                            [] Quarter(i, halfPeriods) = 1 -> 0
                            [] Quarter(i, halfPeriods) = 2 -> -1
                            [] OTHER -> 0

\* ------------------------------------------------------------ pandas
required_columns == << "Time", "Temperature (C)", "Humidity (%)", "Wind Speed (km/h)" >>

Range(s) == { s[i] : i \in DOMAIN s }

\* pd.DataFrame(data): the columns, their null mask (a fresh frame of numbers
\* and datetimes has no null cell) and the dtype of the Time column.
pd_DataFrame(data) ==
  [ type       |-> "DataFrame",
    cols       |-> data,
    isnull     |-> [c \in DOMAIN data |-> [i \in DOMAIN data[c] |-> FALSE]],
    time_dtype |-> "datetime64" ]

\* df.isnull().sum(): the null cells of each column.
nan_counts(d) ==
  [c \in DOMAIN d.cols |-> Cardinality({ i \in DOMAIN d.isnull[c] : d.isnull[c][i] })]

\* ------------------------------------------------ dashboard.debug_print
\* The flag is the session's, whatever the checkbox shows.
debug_print(sec, msg, data) ==
  IF session_state["debug_mode"]
    THEN << Emit("write", sec, msg) >> \o (IF data THEN << Emit("json", sec, msg) >> ELSE << >>)
    ELSE << >>

\* st.code(traceback.format_exc()) under "if st.session_state.debug_mode".
session_traceback(sec) ==
  IF session_state["debug_mode"] THEN << Emit("code", sec, "traceback") >> ELSE << >>

\* ------------------------------------------- generate_weather_data
\* The list comprehension reads the clock once per sample: reads[i] is the
\* clock at the i-th read.
time_index(reads) ==
  [i \in 1..num_points |-> reads[i] - ((num_points - 1) - (i - 1)) * TicksPerMinute]

temperature_of(s) ==
  LET noise == np_random_normal(s, 5, num_points)
  IN  [i \in 1..num_points |-> 200 + 50 * np_sin(i, 3) + noise[i]]

humidity_of(s) ==
  LET noise == np_random_normal(s, 10, num_points)
  IN  [i \in 1..num_points |-> 500 + 100 * np_cos(i, 2) + noise[i]]

wind_of(s) ==
  LET noise == np_random_normal(s, 7, num_points)
  IN  [i \in 1..num_points |-> 100 + 30 * np_sin(i, 4) + noise[i]]

\* The three draws are taken one after the other from the seeded generator.
draw_arrays(s) ==
  [ temperature |-> temperature_of(s),
    humidity    |-> humidity_of(np_random_after(s, num_points)),
    wind        |-> wind_of(np_random_after(s, 2 * num_points)) ]

\* The range validation without its wind check.
range_error_no_wind(a) ==
  IF (\E i \in DOMAIN a.temperature : a.temperature[i] < TempMin)
     \/ (\E i \in DOMAIN a.temperature : a.temperature[i] > TempMax)
    THEN "Temperature data contains unrealistic values"
  ELSE IF (\E i \in DOMAIN a.humidity : a.humidity[i] < HumidityMin)
     \/ (\E i \in DOMAIN a.humidity : a.humidity[i] > HumidityMax)
    THEN "Humidity data contains unrealistic values"
  ELSE NoError

\* "Validate data ranges": the message of the ValueError raised, or NoError.
range_error(a) ==
  IF (\E i \in DOMAIN a.temperature : a.temperature[i] < TempMin)
     \/ (\E i \in DOMAIN a.temperature : a.temperature[i] > TempMax)
    THEN "Temperature data contains unrealistic values"
  ELSE IF (\E i \in DOMAIN a.humidity : a.humidity[i] < HumidityMin)
     \/ (\E i \in DOMAIN a.humidity : a.humidity[i] > HumidityMax)
    THEN "Humidity data contains unrealistic values"
  ELSE IF \E i \in DOMAIN a.wind : a.wind[i] < WindMin
    THEN "Wind speed data contains negative values"
  ELSE NoError

\* The call without its seed reset: the draws start from wherever the
\* generator stands.
series_rng0_unseeded == rng

\* "np.random.seed(42)" at the head of the call: the generator the draws
\* start from.
series_rng0 == np_random_seed(seed)

\* The whole call.  jitter[i] is how far the clock advanced between the
\* previous read (or the entry of the call) and the i-th read.
generate_weather_data(jitter) ==
  LET s0     == series_rng0
      reads  == [i \in 1..num_points |-> now + Sum(SubSeq(jitter, 1, i))]
      arrays == draw_arrays(s0)
      err    == range_error(arrays)
      frame  == pd_DataFrame(
                  [c \in Range(required_columns) |->
                     CASE c = "Time"             -> time_index(reads)
                       [] c = "Temperature (C)"  -> arrays.temperature
                       [] c = "Humidity (%)"     -> arrays.humidity
                       [] OTHER                  -> arrays.wind])
      begin  == debug_print("generate", "Generating synthetic weather data...", FALSE)
  IN  [ rng  |-> np_random_after(s0, 3 * num_points),
        now  |-> now + Sum(jitter),
        raw  |-> arrays,
        ret  |-> IF err = NoError THEN frame ELSE None,
        ui   |-> IF err = NoError
                   THEN begin \o debug_print("generate", "Weather data generated successfully", TRUE)
                   ELSE begin \o << Emit("error", "generate", err) >>
                              \o session_traceback("generate") ]

\* ------------------------------------------------ validate_dataframe
\* A validation that fails a frame holding null cells.
validate_dataframe_strict(d, raises) ==
  LET begin   == debug_print("validate", "Validating DataFrame...", FALSE)
      fail(e) == [ ret |-> FALSE,
                   ui  |-> begin \o << Emit("error", "validate", e) >>
                                 \o session_traceback("validate") ]
  IN  IF d = None
        THEN fail("'NoneType' object has no attribute 'columns'")
      ELSE IF \E c \in Range(required_columns) : c \notin DOMAIN d.cols
        THEN fail("Missing required columns")
      ELSE IF raises
        THEN fail("DataFrame validation failed")
      ELSE IF \E c \in DOMAIN d.cols : nan_counts(d)[c] > 0
        THEN fail("Found NaN values")
      ELSE [ ret |-> TRUE,
             ui  |-> begin
                     \o (IF d.time_dtype # "datetime64"
                           THEN << Emit("warning", "validate", "Time column is not datetime type") >>
                           ELSE << >>)
                     \o debug_print("validate", "DataFrame validation completed successfully", FALSE) ]

\* d is a DataFrame or None; raises says that df.isnull() raised.
validate_dataframe(d, raises) ==
  LET begin   == debug_print("validate", "Validating DataFrame...", FALSE)
      fail(e) == [ ret |-> FALSE,
                   ui  |-> begin \o << Emit("error", "validate", e) >>
                                 \o session_traceback("validate") ]
  IN  IF d = None
        THEN fail("'NoneType' object has no attribute 'columns'")
      ELSE IF \E c \in Range(required_columns) : c \notin DOMAIN d.cols
        THEN fail("Missing required columns")
      ELSE IF raises
        THEN fail("DataFrame validation failed")
      ELSE [ ret |-> TRUE,
             ui  |-> begin
                     \o (IF \E c \in DOMAIN d.cols : nan_counts(d)[c] > 0
                           THEN << Emit("warning", "validate", "Found NaN values") >>
                           ELSE << >>)
                     \o (IF d.time_dtype # "datetime64"
                           THEN << Emit("warning", "validate", "Time column is not datetime type") >>
                           ELSE << >>)
                     \o debug_print("validate", "DataFrame validation completed successfully", FALSE) ]

\* ------------------------------------------------------------- Init
\* How far the tails of the normal sampler reach, in standard deviations per
\* generator step: 1 keeps every series plausible, the others reach beyond
\* the wind, the humidity and the temperature range.
Samplers == {1, 5, 8, 12}

NoSession == [k \in {} |-> FALSE]

Init ==
  /\ script \in {"dashboard", "map"}
  /\ sampler \in Samplers
  /\ rng \in 0..(Modulus - 1)
  /\ pc = "idle"
  /\ halted = FALSE
  /\ runs = 0
  /\ now = 0
  /\ run_start = 0
  /\ checkbox = FALSE
  /\ session_state = NoSession
  /\ debug_mode = FALSE
  /\ imported = FALSE
  /\ df = None
  /\ call_time = 0
  /\ raw = None
  /\ valid = FALSE
  /\ regions_gdf = None
  /\ load_result = "not loaded"
  /\ m = None
  /\ tooltip_count = 0
  /\ idx = 0
  /\ attempts = << >>
  /\ skipped = {}
  /\ ui = << >>
  /\ failed = {}
  /\ rendered = {}
  /\ faults = 0
  /\ gen_in_run = FALSE
  /\ hist_series = {}
  /\ hist_regions = {}
  /\ gen_calls = 0
  /\ assign_calls = 0

process_vars == << script, sampler >>

\* Whether one more library call may raise in this run.
Raises == IF faults < MaxFaults THEN BOOLEAN ELSE {FALSE}

\* The same for the three metric reads of one row.
RowRaises == { r \in [2..4 -> BOOLEAN] :
                 faults + Cardinality({ j \in 2..4 : r[j] }) <= MaxFaults }

Count(b) == IF b THEN 1 ELSE 0
map_vars     == << regions_gdf, load_result, m, tooltip_count, idx, attempts, skipped >>
series_vars  == << df, call_time, raw, valid, gen_in_run, hist_series, gen_calls >>
region_hist  == << hist_regions, assign_calls >>

\* ------------------------------------------------- the script runner
\* A user interaction (or the first page load) starts a run of the script
\* from its top.  The first render shows the checkbox at its default.
StartRun ==
  /\ pc = "idle"
  /\ runs < MaxRuns
  /\ runs' = runs + 1
  /\ checkbox' \in (IF runs = 0 THEN {FALSE} ELSE BOOLEAN)
  /\ run_start' = now
  /\ halted' = FALSE
  /\ ui' = << >>
  /\ failed' = {}
  /\ rendered' = {}
  /\ faults' = 0
  /\ gen_in_run' = FALSE
  /\ debug_mode' = FALSE
  /\ regions_gdf' = None
  /\ load_result' = "not loaded"
  /\ m' = None
  /\ tooltip_count' = 0
  /\ idx' = 0
  /\ attempts' = << >>
  /\ skipped' = {}
  /\ pc' = IF script = "map" THEN "import" ELSE "module"
  /\ UNCHANGED << process_vars, now, rng, session_state, imported, df, call_time,
                  raw, valid, hist_series, gen_calls, region_hist >>

\* Time passes between two runs.
Tick ==
  /\ pc = "idle"
  /\ now < MaxClock
  /\ now' = now + 1
  /\ UNCHANGED << process_vars, faults, pc, halted, runs, run_start, rng, checkbox,
                  session_state, debug_mode, imported, map_vars, series_vars,
                  ui, failed, rendered, region_hist >>

\* ------------------------------------------ dashboard.py, module body
\* "if 'debug_mode' not in st.session_state": the flag starts False and is
\* otherwise left as the session holds it.
SessionInit ==
  /\ pc = "module"
  /\ session_state' = IF "debug_mode" \in DOMAIN session_state
                        THEN session_state
                        ELSE [k \in {"debug_mode"} |-> FALSE]
  /\ pc' = "generate"
  /\ UNCHANGED << process_vars, faults, halted, runs, now, run_start, rng, checkbox,
                  debug_mode, imported, map_vars, series_vars, ui, failed,
                  rendered, region_hist >>

\* "df = generate_weather_data()" and the gate after it: without data the
\* run stops.
GenerateGate ==
  /\ pc = "generate"
  /\ \E jitter \in [1..num_points -> 0..1] :
       /\ now + Sum(jitter) <= MaxClock
       /\ LET r == generate_weather_data(jitter)
          IN  /\ call_time' = now
              /\ now' = r.now
              /\ rng' = r.rng
              /\ raw' = r.raw
              /\ df' = r.ret
              /\ hist_series' = hist_series \cup {r.raw}
              /\ IF r.ret = None
                   THEN /\ ui' = ui \o r.ui \o
                                 << Emit("error", "gate", "Failed to generate weather data") >>
                        /\ failed' = failed \cup {"generate"}
                        /\ rendered' = rendered
                        /\ halted' = TRUE
                        /\ pc' = "idle"
                   ELSE /\ ui' = ui \o r.ui
                        /\ failed' = failed
                        /\ rendered' = rendered \cup {"generate"}
                        /\ halted' = halted
                        /\ pc' = "validate"
  /\ gen_in_run' = TRUE
  /\ gen_calls' = gen_calls + 1
  /\ UNCHANGED << process_vars, faults, runs, run_start, checkbox, session_state,
                  debug_mode, imported, valid, map_vars, region_hist >>

\* "if not validate_dataframe(df)": a frame that fails validation stops the run.
ValidateGate ==
  /\ pc = "validate"
  /\ \E raises \in Raises :
     /\ faults' = faults + Count(raises)
     /\
       LET r == validate_dataframe(df, raises)
       IN  /\ valid' = r.ret
           /\ IF r.ret
                THEN /\ ui' = ui \o r.ui
                     /\ failed' = failed
                     /\ rendered' = rendered \cup {"validate"}
                     /\ halted' = halted
                     /\ pc' = "module_end"
                ELSE /\ ui' = ui \o r.ui \o
                              << Emit("error", "gate", "Data validation failed") >>
                     /\ failed' = failed \cup {"validate"}
                     /\ rendered' = rendered
                     /\ halted' = TRUE
                     /\ pc' = "idle"
  /\ UNCHANGED << process_vars, runs, now, run_start, rng, checkbox, session_state,
                  debug_mode, imported, df, call_time, raw, gen_in_run,
                  hist_series, gen_calls, map_vars, region_hist >>

\* One "current value" metric: the last cell of the column, or the column's
\* error box when reading it fails (the column is absent or empty, or the
\* lookup raises).
metric_fails(d, col, raises) ==
  \/ col \notin DOMAIN d.cols
  \/ Len(d.cols[col]) = 0
  \/ raises

\* One metric block of show_dashboard, with its debug line.
show_metric(d, col, raises) ==
  IF metric_fails(d, col, raises)
    THEN << Emit("error", col, "Error loading") >> \o debug_print(col, "loading error", FALSE)
    ELSE << Emit("metric", col, "current value") >> \o debug_print(col, "current value", FALSE)

\* The metrics of a row whose read failed.
metric_failures(d, raises) ==
  { required_columns[j] : j \in { i \in 2..4 : metric_fails(d, required_columns[i], raises[i]) } }

\* show_dashboard(): title, the three metrics, the chart, the debug summary
\* and the closing banner.  raises[j] says that reading metric j raised,
\* chart_raises that drawing the chart did.
show_dashboard(raises, chart_raises) ==
  << Emit("title", "title", "Weather Dashboard") >>
  \o (IF df = None
        THEN << Emit("error", "title", "No data available to display") >>
        ELSE << Emit("subheader", "metrics", "Current Values") >>
             \o show_metric(df, required_columns[2], raises[2])
             \o show_metric(df, required_columns[3], raises[3])
             \o show_metric(df, required_columns[4], raises[4])
             \o << Emit("markdown", "chart", "---"),
                   Emit("subheader", "chart", "Trends Over Time") >>
             \o (IF chart_raises
                   THEN << Emit("error", "chart", "Error displaying chart") >>
                        \o session_traceback("chart")
                   ELSE << Emit("line_chart", "chart", "chart") >>
                        \o debug_print("chart", "Chart displayed successfully", FALSE))
             \o (IF session_state["debug_mode"]
                   THEN << Emit("markdown", "summary", "---"),
                           Emit("subheader", "summary", "Data Summary"),
                           Emit("write", "summary", "Data Points"),
                           Emit("write", "summary", "Time Range"),
                           Emit("write", "summary", "Statistics"),
                           Emit("dataframe", "summary", "describe") >>
                   ELSE << >>)
             \o << Emit("success", "success", "Dashboard displayed successfully") >>)

\* ------------------------------------- dashboard.py, __main__ block
\* Only here is the session's flag set from the checkbox: after the module
\* body above has generated and validated the data.
MainBlock ==
  /\ pc = "module_end"
  /\ script = "dashboard"
  /\ session_state' = [session_state EXCEPT !["debug_mode"] = checkbox]
  /\ ui' = ui \o << Emit("checkbox", "main", "Debug Mode") >>
              \o (IF checkbox
                    THEN << Emit("subheader", "main", "System Info"),
                            Emit("write", "main", "Python"),
                            Emit("write", "main", "Streamlit"),
                            Emit("write", "main", "Pandas"),
                            Emit("write", "main", "Numpy") >>
                    ELSE << >>)
  /\ rendered' = rendered \cup {"main"}
  /\ pc' = "show"
  /\ UNCHANGED << process_vars, faults, halted, runs, now, run_start, rng, checkbox,
                  debug_mode, imported, map_vars, series_vars, failed, region_hist >>

ShowDashboard ==
  /\ pc = "show"
  /\ \E raises \in RowRaises, chart_raises \in BOOLEAN :
       /\ faults' = faults + Cardinality({ j \in 2..4 : raises[j] }) + Count(chart_raises)
       /\ faults' <= MaxFaults
       /\ ui' = ui \o show_dashboard(raises, chart_raises)
       /\ failed' = failed \cup metric_failures(df, raises)
                           \cup (IF chart_raises THEN {"chart"} ELSE {})
  /\ rendered' = rendered \cup {"title", "metrics", "chart", "success"}
  /\ pc' = "idle"
  /\ UNCHANGED << process_vars, halted, runs, now, run_start, rng, checkbox,
                  session_state, debug_mode, imported, map_vars, series_vars,
                  region_hist >>

\* ------------------------------- weather_map_dashboard.py, top to bottom
\* "import dashboard": the module body runs only when the module is not yet
\* in sys.modules; found says whether dashboard.py can be found.
ImportDashboard ==
  /\ pc = "import"
  /\ \E found \in BOOLEAN :
       IF imported
         THEN /\ ui' = ui \o << Emit("success", "import", "Successfully imported dashboard module") >>
              /\ rendered' = rendered \cup {"import"}
              /\ UNCHANGED << failed, halted >>
              /\ pc' = "checkbox"
         ELSE IF found
           THEN /\ UNCHANGED << ui, rendered, failed, halted >>
                /\ pc' = "module"
           ELSE /\ ui' = ui \o << Emit("error", "import", "Failed to import dashboard module") >>
                /\ failed' = failed \cup {"import"}
                /\ halted' = TRUE
                /\ pc' = "idle"
                /\ UNCHANGED rendered
  /\ UNCHANGED << process_vars, faults, runs, now, run_start, rng, checkbox, session_state,
                  debug_mode, imported, map_vars, series_vars, region_hist >>

\* The module body ran to its end: the import statement returns, the module
\* stays in sys.modules.
ImportReturn ==
  /\ pc = "module_end"
  /\ script = "map"
  /\ imported' = TRUE
  /\ ui' = ui \o << Emit("success", "import", "Successfully imported dashboard module") >>
  /\ rendered' = rendered \cup {"import"}
  /\ pc' = "checkbox"
  /\ UNCHANGED << process_vars, faults, halted, runs, now, run_start, rng, checkbox,
                  session_state, debug_mode, map_vars, series_vars, failed,
                  region_hist >>

\* "debug_mode = st.sidebar.checkbox(...)".
DebugCheckbox ==
  /\ pc = "checkbox"
  /\ debug_mode' = checkbox
  /\ ui' = ui \o << Emit("checkbox", "checkbox", "Debug Mode") >>
  /\ rendered' = rendered \cup {"checkbox"}
  /\ pc' = "geo"
  /\ UNCHANGED << process_vars, faults, halted, runs, now, run_start, rng, checkbox,
                  session_state, imported, map_vars, series_vars, failed,
                  region_hist >>

\* weather_map_dashboard.debug_print: the flag is the run's checkbox value.
map_debug_print(sec, msg, data) ==
  IF debug_mode
    THEN << Emit("write", sec, msg) >> \o (IF data THEN << Emit("json", sec, msg) >> ELSE << >>)
    ELSE << >>

\* st.code(traceback.format_exc()) under "if debug_mode".
map_traceback(sec) ==
  IF debug_mode THEN << Emit("code", sec, "traceback") >> ELSE << >>

\* What gpd.read_file can find: no file, a file it cannot parse, or a frame
\* of n rows whose features may lack the 'region' property.
GeoDataFrames ==
  [ type : {"GeoDataFrame"}, n : 0..MaxRegions, has_region : BOOLEAN, Temperature : {<< >>} ]

Files ==
  { [kind |-> k, frame |-> None] : k \in {"missing", "unreadable"} }
  \cup { [kind |-> "frame", frame |-> g] : g \in GeoDataFrames }

\* The load whose FileNotFoundError handler shows the error and goes on.
load_geojson_no_stop(file) ==
  LET begin == map_debug_print("geo", "Loading Singapore regions GeoJSON file...", FALSE)
  IN  IF file.kind = "missing"
        THEN [ result |-> "missing", gdf |-> None, stop |-> FALSE,
               ui |-> begin \o << Emit("error", "geo", "File 'singapore_regions.geojson' not found") >> ]
      ELSE IF file.kind = "unreadable"
        THEN [ result |-> "unreadable", gdf |-> None, stop |-> TRUE,
               ui |-> begin \o << Emit("error", "geo", "Error loading GeoJSON file") >>
                            \o map_traceback("geo") ]
      ELSE IF file.frame.n = 0
        THEN [ result |-> "empty", gdf |-> file.frame, stop |-> TRUE,
               ui |-> begin \o map_debug_print("geo", "GeoJSON loaded successfully", TRUE)
                            \o << Emit("error", "geo", "No data found in the GeoJSON file") >> ]
      ELSE [ result |-> "loaded", gdf |-> file.frame, stop |-> FALSE,
             ui |-> begin \o map_debug_print("geo", "GeoJSON loaded successfully", TRUE) ]

\* "Load Singapore regions GeoJSON" with its three ways of stopping the run.
load_geojson(file) ==
  LET begin == map_debug_print("geo", "Loading Singapore regions GeoJSON file...", FALSE)
  IN  IF file.kind = "missing"
        THEN [ result |-> "missing", gdf |-> None, stop |-> TRUE,
               ui |-> begin \o << Emit("error", "geo", "File 'singapore_regions.geojson' not found") >> ]
      ELSE IF file.kind = "unreadable"
        THEN [ result |-> "unreadable", gdf |-> None, stop |-> TRUE,
               ui |-> begin \o << Emit("error", "geo", "Error loading GeoJSON file") >>
                            \o map_traceback("geo") ]
      ELSE IF file.frame.n = 0
        THEN [ result |-> "empty", gdf |-> file.frame, stop |-> TRUE,
               ui |-> begin \o map_debug_print("geo", "GeoJSON loaded successfully", TRUE)
                            \o << Emit("error", "geo", "No data found in the GeoJSON file") >> ]
      ELSE [ result |-> "loaded", gdf |-> file.frame, stop |-> FALSE,
             ui |-> begin \o map_debug_print("geo", "GeoJSON loaded successfully", TRUE) ]

LoadGeoJSON ==
  /\ pc = "geo"
  /\ \E file \in Files :
       LET r == load_geojson(file)
       IN  /\ load_result' = r.result
           /\ regions_gdf' = r.gdf
           /\ ui' = ui \o r.ui
           /\ failed' = failed \cup (IF r.result = "loaded" THEN {} ELSE {"geo"})
           /\ rendered' = rendered \cup (IF r.stop THEN {} ELSE {"geo"})
           /\ halted' = r.stop
           /\ pc' = IF r.stop THEN "idle" ELSE "temperature"
  /\ UNCHANGED << process_vars, faults, runs, now, run_start, rng, checkbox, session_state,
                  debug_mode, imported, m, tooltip_count, idx, attempts, skipped,
                  series_vars, region_hist >>

\* The per-region column: the seed is reset, then one uniform draw per row.
region_temperatures(n) == np_random_uniform(np_random_seed(seed), n)

\* The generator after the assignment.
region_rng(n) == np_random_after(np_random_seed(seed), n)

\* "Generate synthetic temperature data for each region"; raises says that
\* the column assignment raised (as it does when no frame was loaded).
AssignTemperature ==
  /\ pc = "temperature"
  /\ \E raises \in Raises :
     /\ faults' = faults + Count(raises)
     /\
       IF raises \/ regions_gdf = None
         THEN /\ rng' = np_random_seed(seed)
              /\ ui' = ui \o map_debug_print("temperature", "Generating synthetic temperature data...", FALSE)
                         \o << Emit("error", "temperature", "Error generating temperature data") >>
                         \o map_traceback("temperature")
              /\ failed' = failed \cup {"temperature"}
              /\ halted' = TRUE
              /\ pc' = "idle"
              /\ UNCHANGED << regions_gdf, rendered, region_hist >>
         ELSE /\ rng' = region_rng(regions_gdf.n)
              /\ regions_gdf' = [regions_gdf EXCEPT !.Temperature = region_temperatures(regions_gdf.n)]
              /\ hist_regions' = hist_regions \cup {regions_gdf'.Temperature}
              /\ assign_calls' = assign_calls + 1
              /\ ui' = ui \o map_debug_print("temperature", "Generating synthetic temperature data...", FALSE)
                         \o map_debug_print("temperature", "Temperature data generated", TRUE)
              /\ rendered' = rendered \cup {"temperature"}
              /\ pc' = "map"
              /\ UNCHANGED << failed, halted >>
  /\ UNCHANGED << process_vars, runs, now, run_start, checkbox, session_state,
                  debug_mode, imported, load_result, m, tooltip_count, idx,
                  attempts, skipped, series_vars >>

\* "Create a folium map centered on Singapore".
CreateMap ==
  /\ pc = "map"
  /\ \E raises \in Raises :
     /\ faults' = faults + Count(raises)
     /\
       IF raises
         THEN /\ ui' = ui \o map_debug_print("map", "Creating folium map...", FALSE)
                         \o << Emit("error", "map", "Error creating map") >>
                         \o map_traceback("map")
              /\ failed' = failed \cup {"map"}
              /\ halted' = TRUE
              /\ pc' = "idle"
              /\ UNCHANGED << m, rendered >>
         ELSE /\ m' = [type |-> "Map", layers |-> << >>]
              /\ ui' = ui \o map_debug_print("map", "Creating folium map...", FALSE)
                         \o map_debug_print("map", "Map created successfully", FALSE)
              /\ rendered' = rendered \cup {"map"}
              /\ pc' = "choropleth"
              /\ UNCHANGED << failed, halted >>
  /\ UNCHANGED << process_vars, runs, now, run_start, rng, checkbox, session_state,
                  debug_mode, imported, regions_gdf, load_result, tooltip_count,
                  idx, attempts, skipped, series_vars, region_hist >>

\* "Add choropleth layer": a frame without the 'region' column raises
\* KeyError; raises says that folium raised something else.
AddChoropleth ==
  /\ pc = "choropleth"
  /\ \E raises \in Raises :
     /\ faults' = faults + Count(raises)
     /\
       LET begin == map_debug_print("choropleth", "Adding choropleth layer...", FALSE)
           stop(out) ==
             /\ ui' = ui \o begin \o out
             /\ failed' = failed \cup {"choropleth"}
             /\ halted' = TRUE
             /\ pc' = "idle"
             /\ UNCHANGED << m, rendered >>
       IN  IF ~regions_gdf.has_region
             THEN stop(<< Emit("error", "choropleth", "Missing required column") >>
                       \o (IF debug_mode
                             THEN << Emit("write", "choropleth", "Available columns") >>
                             ELSE << >>))
           ELSE IF raises
             THEN stop(<< Emit("error", "choropleth", "Error adding choropleth layer") >>
                       \o map_traceback("choropleth"))
           ELSE /\ m' = [m EXCEPT !.layers = Append(@, [layer |-> "choropleth", row |-> 0])]
                /\ ui' = ui \o begin
                            \o map_debug_print("choropleth", "Choropleth layer added successfully", FALSE)
                /\ rendered' = rendered \cup {"choropleth"}
                /\ pc' = "tooltips"
                /\ UNCHANGED << failed, halted >>
  /\ UNCHANGED << process_vars, runs, now, run_start, rng, checkbox, session_state,
                  debug_mode, imported, regions_gdf, load_result, tooltip_count,
                  idx, attempts, skipped, series_vars, region_hist >>

\* "Add tooltips": the loop's preamble.
TooltipsBegin ==
  /\ pc = "tooltips"
  /\ ui' = ui \o map_debug_print("tooltips", "Adding tooltips...", FALSE)
  /\ tooltip_count' = 0
  /\ idx' = 0
  /\ pc' = "tooltip_loop"
  /\ UNCHANGED << process_vars, faults, halted, runs, now, run_start, rng, checkbox,
                  session_state, debug_mode, imported, regions_gdf, load_result,
                  m, attempts, skipped, series_vars, failed, rendered, region_hist >>

\* The iteration with the counter incremented before the layer is built.
tooltip_body_counts_first(r, raises) ==
  IF raises
    THEN [ m       |-> m,
           count   |-> tooltip_count + 1,
           skipped |-> skipped \cup {r},
           ui      |-> map_debug_print("tooltip", "Warning: Failed to add tooltip for region", FALSE),
           failed  |-> {"tooltip"} ]
    ELSE [ m       |-> [m EXCEPT !.layers = Append(@, [layer |-> "tooltip", row |-> r])],
           count   |-> tooltip_count + 1,
           skipped |-> skipped,
           ui      |-> << >>,
           failed  |-> {} ]

\* The body of one iteration, for row r: the layer is added and counted, or
\* the failure is reported through debug_print and the loop continues.
tooltip_body(r, raises) ==
  IF raises
    THEN [ m       |-> m,
           count   |-> tooltip_count,
           skipped |-> skipped \cup {r},
           ui      |-> map_debug_print("tooltip", "Warning: Failed to add tooltip for region", FALSE),
           failed  |-> {"tooltip"} ]
    ELSE [ m       |-> [m EXCEPT !.layers = Append(@, [layer |-> "tooltip", row |-> r])],
           count   |-> tooltip_count + 1,
           skipped |-> skipped,
           ui      |-> << >>,
           failed  |-> {} ]

\* One iteration of "for idx, r in regions_gdf.iterrows()"; raises says that
\* building or adding the row's tooltip raised.
TooltipStep ==
  /\ pc = "tooltip_loop"
  /\ idx < regions_gdf.n
  /\ \E raises \in Raises :
     /\ faults' = faults + Count(raises)
     /\
       LET r == tooltip_body(idx + 1, raises)
       IN  /\ m' = r.m
           /\ tooltip_count' = r.count
           /\ skipped' = r.skipped
           /\ ui' = ui \o r.ui
           /\ failed' = failed \cup r.failed
  /\ attempts' = Append(attempts, idx + 1)
  /\ idx' = idx + 1
  /\ UNCHANGED << process_vars, pc, halted, runs, now, run_start, rng, checkbox,
                  session_state, debug_mode, imported, regions_gdf, load_result,
                  series_vars, rendered, region_hist >>

\* The iterator is exhausted: the closing debug line.
TooltipsEnd ==
  /\ pc = "tooltip_loop"
  /\ idx >= regions_gdf.n
  /\ ui' = ui \o map_debug_print("tooltips", "Tooltips added successfully", FALSE)
  /\ rendered' = rendered \cup {"tooltips"}
  /\ pc' = "title"
  /\ UNCHANGED << process_vars, faults, halted, runs, now, run_start, rng, checkbox,
                  session_state, debug_mode, imported, map_vars, series_vars,
                  failed, region_hist >>

\* "Main dashboard interface": the title and the three tabs.
TitleAndTabs ==
  /\ pc = "title"
  /\ ui' = ui \o << Emit("title", "title", "Singapore Weather Tracker"),
                    Emit("tabs", "title", "Weather Map, Time Series Data, Debug Info") >>
  /\ rendered' = rendered \cup {"title"}
  /\ pc' = "tab1"
  /\ UNCHANGED << process_vars, faults, halted, runs, now, run_start, rng, checkbox,
                  session_state, debug_mode, imported, map_vars, series_vars,
                  failed, region_hist >>

\* Tab 1 with a handler that stops the run, as the handlers above it do.
tab1_stops(raises) ==
  IF raises
    THEN [ stop   |-> TRUE,
           failed |-> {"tab1"},
           ui     |-> << Emit("markdown", "tab1", "Singapore Weather Map"),
                         Emit("error", "tab1", "Error displaying map") >>
                      \o map_traceback("tab1") ]
    ELSE [ stop   |-> FALSE,
           failed |-> {},
           ui     |-> << Emit("markdown", "tab1", "Singapore Weather Map"),
                         Emit("st_folium", "tab1", "map"),
                         Emit("success", "tab1", "Map displayed successfully") >> ]

\* Tab 1: the map; raises says that st_folium raised.  The handler shows the
\* error and lets the script go on.
tab1(raises) ==
  IF raises
    THEN [ stop   |-> FALSE,
           failed |-> {"tab1"},
           ui     |-> << Emit("markdown", "tab1", "Singapore Weather Map"),
                         Emit("error", "tab1", "Error displaying map") >>
                      \o map_traceback("tab1") ]
    ELSE [ stop   |-> FALSE,
           failed |-> {},
           ui     |-> << Emit("markdown", "tab1", "Singapore Weather Map"),
                         Emit("st_folium", "tab1", "map"),
                         Emit("success", "tab1", "Map displayed successfully") >> ]

Tab1 ==
  /\ pc = "tab1"
  /\ \E raises \in Raises :
       LET r == tab1(raises)
       IN  /\ faults' = faults + Count(raises)
           /\ ui' = ui \o r.ui
           /\ failed' = failed \cup r.failed
           /\ rendered' = rendered \cup (IF r.stop THEN {} ELSE {"tab1"})
           /\ halted' = r.stop
           /\ pc' = IF r.stop THEN "idle" ELSE "tab2"
  /\ UNCHANGED << process_vars, runs, now, run_start, rng, checkbox,
                  session_state, debug_mode, imported, map_vars, series_vars,
                  region_hist >>

\* One metric block of tab 2.
tab2_metric(d, col, raises) ==
  IF metric_fails(d, col, raises)
    THEN << Emit("error", col, "Error loading") >>
    ELSE << Emit("metric", col, "current value") >>

\* Tab 2: the series of the dashboard module as it stands in sys.modules.
tab2(raises, chart_raises) ==
  IF df = None
    THEN << Emit("error", "tab2", "No time series data available") >>
    ELSE << Emit("subheader", "tab2", "Current Values") >>
         \o tab2_metric(df, required_columns[2], raises[2])
         \o tab2_metric(df, required_columns[3], raises[3])
         \o tab2_metric(df, required_columns[4], raises[4])
         \o << Emit("markdown", "tab2", "---"),
               Emit("subheader", "tab2", "Trends Over Time") >>
         \o (IF chart_raises
               THEN << Emit("error", "tab2", "Error displaying time series data") >>
                    \o map_traceback("tab2")
               ELSE << Emit("line_chart", "tab2", "chart"),
                       Emit("success", "tab2", "Time series data displayed successfully") >>)

Tab2 ==
  /\ pc = "tab2"
  /\ \E raises \in RowRaises, chart_raises \in BOOLEAN :
       /\ faults' = faults + Cardinality({ j \in 2..4 : raises[j] }) + Count(chart_raises)
       /\ faults' <= MaxFaults
       /\ ui' = ui \o tab2(raises, chart_raises)
       /\ failed' = failed \cup (IF df = None THEN {} ELSE metric_failures(df, raises))
                           \cup (IF df # None /\ chart_raises THEN {"tab2"} ELSE {})
  /\ rendered' = rendered \cup {"tab2"}
  /\ pc' = "tab3"
  /\ UNCHANGED << process_vars, halted, runs, now, run_start, rng, checkbox,
                  session_state, debug_mode, imported, map_vars, series_vars,
                  region_hist >>

\* Tab 3: the debug panel, or the hint to enable it.
tab3 ==
  IF debug_mode
    THEN << Emit("subheader", "tab3", "Debug Information"),
            Emit("write", "tab3", "System Information"),
            Emit("write", "tab3", "Python version"),
            Emit("write", "tab3", "Streamlit version"),
            Emit("write", "tab3", "Data Information"),
            Emit("write", "tab3", "Regions DataFrame shape"),
            Emit("write", "tab3", IF df # None THEN "Time series DataFrame shape"
                                               ELSE "Time series DataFrame: Not available"),
            Emit("write", "tab3", "Memory Usage (approximate)"),
            Emit("write", "tab3", "Regions data"),
            Emit("write", "tab3", IF df # None THEN "Time series data"
                                               ELSE "Time series data: Not available"),
            Emit("write", "tab3", "Sample Data"),
            Emit("write", "tab3", "Regions data"),
            Emit("dataframe", "tab3", "regions_gdf.head()"),
            Emit("write", "tab3", "Time series data"),
            IF df # None THEN Emit("dataframe", "tab3", "dashboard.df.head()")
                         ELSE Emit("write", "tab3", "No time series data available") >>
    ELSE << Emit("info", "tab3", "Enable Debug Mode in the sidebar to see debug information") >>

\* Tab 3 and the closing sidebar banner: the end of the script.
Tab3 ==
  /\ pc = "tab3"
  /\ ui' = ui \o tab3
              \o (IF ~debug_mode
                    THEN << Emit("success", "footer", "Dashboard loaded successfully!") >>
                    ELSE << >>)
  /\ rendered' = rendered \cup {"tab3", "footer"}
  /\ pc' = "idle"
  /\ UNCHANGED << process_vars, faults, halted, runs, now, run_start, rng, checkbox,
                  session_state, debug_mode, imported, map_vars, series_vars,
                  failed, region_hist >>

Next ==
  \/ StartRun
  \/ Tick
  \/ SessionInit
  \/ GenerateGate
  \/ ValidateGate
  \/ MainBlock
  \/ ShowDashboard
  \/ ImportDashboard
  \/ ImportReturn
  \/ DebugCheckbox
  \/ LoadGeoJSON
  \/ AssignTemperature
  \/ CreateMap
  \/ AddChoropleth
  \/ TooltipsBegin
  \/ TooltipStep
  \/ TooltipsEnd
  \/ TitleAndTabs
  \/ Tab1
  \/ Tab2
  \/ Tab3

Spec == Init /\ [][Next]_vars

\* ------------------------------ validate_dataframe on arbitrary frames
\* The frames validate_dataframe is applied to: one row, any subset of the
\* required columns, any null mask, a Time column of datetimes or of text.
TestFrames ==
  UNION { [ type       : {"DataFrame"},
            cols       : {[c \in C |-> << 0 >>]},
            isnull     : [C -> {<< FALSE >>, << TRUE >>}],
            time_dtype : {"datetime64", "object"} ]
          : C \in SUBSET Range(required_columns) }

InitValidate ==
  /\ script = "dashboard"
  /\ sampler = 1
  /\ rng = 0
  /\ pc = "validate_any"
  /\ halted = FALSE
  /\ runs = 0
  /\ now = 0
  /\ run_start = 0
  /\ checkbox = FALSE
  /\ session_state \in [{"debug_mode"} -> BOOLEAN]
  /\ debug_mode = FALSE
  /\ imported = FALSE
  /\ df \in TestFrames \cup {None}
  /\ call_time = 0
  /\ raw = None
  /\ valid = FALSE
  /\ regions_gdf = None
  /\ load_result = "not loaded"
  /\ m = None
  /\ tooltip_count = 0
  /\ idx = 0
  /\ attempts = << >>
  /\ skipped = {}
  /\ ui = << >>
  /\ failed = {}
  /\ rendered = {}
  /\ faults = 0
  /\ gen_in_run = FALSE
  /\ hist_series = {}
  /\ hist_regions = {}
  /\ gen_calls = 0
  /\ assign_calls = 0

\* One call of validate_dataframe on the frame at hand.
ValidateAny ==
  /\ pc = "validate_any"
  /\ \E raises \in Raises :
       LET r == validate_dataframe(df, raises)
       IN  /\ faults' = faults + Count(raises)
           /\ valid' = r.ret
           /\ ui' = r.ui
           /\ failed' = IF r.ret THEN {} ELSE {"validate"}
  /\ pc' = "validated"
  /\ UNCHANGED << process_vars, halted, runs, now, run_start, rng, checkbox,
                  session_state, debug_mode, imported, df, call_time, raw,
                  gen_in_run, hist_series, gen_calls, map_vars, rendered,
                  region_hist >>

NextValidate == ValidateAny

SpecValidate == InitValidate /\ [][NextValidate]_vars

\* =================================================================
\* Properties
\* =================================================================

\* The page holds an element of one of the kinds for the section.
Shown(kinds, sec) == \E i \in 1..Len(ui) : ui[i].kind \in kinds /\ ui[i].sec = sec

\* Some value of the drawn arrays lies outside the plausibility ranges
\* (-50..60 degC, 0..100 %, wind >= 0; in tenths).
Implausible(a) ==
  \/ \E i \in DOMAIN a.temperature : a.temperature[i] < -500 \/ a.temperature[i] > 600
  \/ \E i \in DOMAIN a.humidity : a.humidity[i] < 0 \/ a.humidity[i] > 1000
  \/ \E i \in DOMAIN a.wind : a.wind[i] < 0

FrameArrays(d) ==
  [ temperature |-> d.cols["Temperature (C)"],
    humidity    |-> d.cols["Humidity (%)"],
    wind        |-> d.cols["Wind Speed (km/h)"] ]

\* C1: whenever generate_weather_data drew a value outside the plausibility
\* ranges, it reported the failure with an error banner and returned None;
\* no DataFrame the program holds contains an implausible value.
C1_ImplausibleRejected ==
  /\ (gen_in_run /\ Implausible(raw)) => (df = None /\ Shown({"error"}, "generate"))
  /\ df # None => ~Implausible(FrameArrays(df))

\* C1 witness: a call drew an implausible series and returned nothing.
C1_Witness ==
  gen_in_run /\ Implausible(raw) /\ df = None /\ Shown({"error"}, "generate")

\* The sections whose failure ends the run with st.stop().
FatalSections ==
  {"import", "generate", "validate", "geo", "temperature", "map", "choropleth"}

\* Every section of a script, in the order the page shows them.
AllSections ==
  IF script = "map"
    THEN {"import", "checkbox", "geo", "temperature", "map", "choropleth",
          "tooltips", "title", "tab1", "tab2", "tab3", "footer"}
         \cup (IF gen_in_run THEN {"generate", "validate"} ELSE {})
    ELSE {"generate", "validate", "main", "title", "metrics", "chart", "success"}

RunEnded == pc = "idle" /\ runs > 0

BeforeLoad ==
  { Emit("success", "import", "Successfully imported dashboard module"),
    Emit("checkbox", "checkbox", "Debug Mode"),
    Emit("write", "geo", "Loading Singapore regions GeoJSON file...") }

FileNotFound == Emit("error", "geo", "File 'singapore_regions.geojson' not found")

\* C3 (original): with the geometry file missing the run emits the
\* file-not-found error and nothing else, before or after it.
C3_NothingElse ==
  load_result = "missing" => ui = << FileNotFound >>

\* C3 (amended): with the geometry file missing the run halts with the
\* file-not-found error as its last element: no title, tab or map is emitted
\* and nothing follows the error; before it the page already holds the import
\* success banner and the sidebar checkbox (and, in debug mode, the line
\* announcing the load).
C3_MissingFile ==
  load_result = "missing" =>
    /\ halted
    /\ pc = "idle"
    /\ Len(ui) >= 3
    /\ Last(ui) = FileNotFound
    /\ \A i \in 1..(Len(ui) - 1) : ui[i] \in BeforeLoad
    /\ ui[1] = Emit("success", "import", "Successfully imported dashboard module")
    /\ ui[2] = Emit("checkbox", "checkbox", "Debug Mode")

\* C3 witness: a run found no geometry file.
C3_Witness ==
  load_result = "missing" /\ halted /\ Last(ui) = FileNotFound

\* The tooltip layers of the map.
TooltipLayers == { i \in 1..Len(m.layers) : m.layers[i].layer = "tooltip" }

\* C4: once the tooltip loop has ended, a tooltip addition was attempted for
\* each of the N rows once and in order, tooltip_count plus the skipped rows
\* is N, and tooltip_count is the number of tooltip layers on the map.
C4_TooltipLoop ==
  "tooltips" \in rendered =>
    /\ attempts = [i \in 1..regions_gdf.n |-> i]
    /\ tooltip_count + Cardinality(skipped) = regions_gdf.n
    /\ tooltip_count = Cardinality(TooltipLayers)

\* C4 witness: the loop ended after the first row's tooltip failed and the
\* second row's was added.
C4_Witness ==
  "tooltips" \in rendered /\ skipped = {1} /\ tooltip_count = 1

\* C5: a generated frame has the configured number of rows, consecutive
\* timestamps exactly one minute apart, and its last timestamp is the time of
\* the call.
C5_Timestamps ==
  df # None =>
    LET t == df.cols["Time"]
    IN  /\ Len(t) = num_points
        /\ \A i \in 1..(Len(t) - 1) : t[i + 1] - t[i] = TicksPerMinute
        /\ Last(t) = call_time

AllRequired(d) == \A c \in Range(required_columns) : c \in DOMAIN d.cols

HasNull(d) == \E c \in DOMAIN d.isnull : \E i \in DOMAIN d.isnull[c] : d.isnull[c][i]

\* C6: validate_dataframe returns True for every frame that has the four
\* required columns, nulls or not, unless an unexpected exception occurs, and
\* it warns exactly when a cell is null; it returns False only when a required
\* column is missing or an exception occurred (a None frame raises one).
C6_ValidateFlags ==
  pc = "validated" =>
    /\ (df # None /\ AllRequired(df) /\ faults = 0) =>
         /\ valid
         /\ HasNull(df) <=> Shown({"warning"}, "validate")
                            /\ \E i \in 1..Len(ui) : ui[i].msg = "Found NaN values"
    /\ ~valid => (df = None \/ ~AllRequired(df) \/ faults > 0)

\* C6 witness: a frame with all required columns and a null cell was
\* accepted with a warning.
C6_Witness ==
  /\ pc = "validated"
  /\ df # None
  /\ AllRequired(df)
  /\ HasNull(df)
  /\ valid
  /\ \E i \in 1..Len(ui) : ui[i] = Emit("warning", "validate", "Found NaN values")

\* C7: all calls of generate_weather_data in a process draw the same
\* temperature, humidity and wind arrays, whatever the generator's state
\* before the call, and all runs of the map script over the same number of
\* regions assign the same temperatures.
C7_Deterministic ==
  /\ Cardinality(hist_series) <= 1
  /\ \A a, b \in hist_regions : Len(a) = Len(b) => a = b

\* C7 witness: the series was generated twice and drew one triple of arrays.
C7_Witness ==
  gen_calls >= 2 /\ Cardinality(hist_series) = 1

\* C8: the debug lines of data generation are on the page exactly when the
\* checkbox is checked in the same render.
C8_DebugFollowsCheckbox ==
  gen_in_run => (Shown({"write"}, "generate") <=> checkbox)

\* The debug flag a section of the current run consults.
DiagnosticsOn ==
  \/ debug_mode
  \/ ("debug_mode" \in DOMAIN session_state /\ session_state["debug_mode"])

\* C9: every failure caught in a section shows an error or warning for that
\* section, debug mode or not, and a trace only in debug mode.
C9_NoSilentFailure ==
  /\ \A sec \in failed : Shown({"error", "warning"}, sec)
  /\ (\E i \in 1..Len(ui) : ui[i].kind = "code") => DiagnosticsOn

\* C10: when the map script shows the series in its second tab, the series
\* was generated in this run and ends no earlier than the run started.
C10_SeriesOfThisRun ==
  (script = "map" /\ "tab2" \in rendered /\ df # None) =>
    /\ gen_in_run
    /\ Last(df.cols["Time"]) >= run_start

====
